---- MODULE Spec2Model ----
(***************************************************************************)
(* Model of libmaestro/examples/maestro_listen.rs: the session establisher *)
(* (connect_device_to_profile), the channel probe loop of main, and main's *)
(* use of the pwrpc client (unary call, then server-streaming call).       *)
(*                                                                         *)
(* The runtime is tokio's current_thread flavour: the code between two     *)
(* .await points runs atomically, so each action is one such stretch.      *)
(***************************************************************************)
EXTENDS Integers, Sequences, FiniteSets, TLC

\* ---------------------------------------------------------------- bounds
MaxAttempts == 2      \* outbound results remembered in outLog
MaxOffers   == 2      \* connection requests the profile handle produces
MaxFrames   == 4      \* items the transport's incoming sequence produces
MaxChannel  == 1      \* channel ids range over 0..MaxChannel

\* ------------------------------------------------------- program constants
MainCallId  == 42     \* call_id of both requests of main
InitChannel == 0      \* let mut channel = 0

\* ------------------------------------------------------------ input sets
DevAddr    == "dev"                   \* dev.address()
Addresses  == {DevAddr, "other"}      \* req.device() of an inbound request
Channels   == 0..MaxChannel           \* packet.channel_id
OtherCallId == MainCallId + 1         \* call id of a second caller on the handle
StrayCallId == MainCallId + 2         \* call id no caller ever uses
CallIds    == {MainCallId, OtherCallId, StrayCallId}
Kinds      == {"data", "end", "error"}
Frames     == [channel_id : Channels, call_id : CallIds, kind : Kinds]

NoStream   == "none"

VARIABLES
    pc,          \* position of main
    outbound,    \* the outbound future of the current select!
    attempt,     \* which outbound future that is (0: none is left)
    outLog,      \* `res` of the latest outbound attempts, oldest first
    profile,     \* connection requests queued in the ProfileHandle
    profileEnd,  \* the ProfileHandle yields no further request
    handled,     \* requests taken by the inbound branch, with the verdict
    stream,      \* device the accepted rfcomm stream is bound to
    channel,     \* let mut channel
    nRead,       \* items read so far from the framed stream
    rxEnd,       \* the framed stream has yielded None
    probe,       \* what the probe loop saw
    rxFirst,     \* channel id of the first frame the stream produced
    last,        \* the packet the driver loop read last
    driver,      \* the spawned run_client task
    pending,     \* the client's PendingCall table
    calls,       \* per call: its status and the frame that resolved it
    queue,       \* streaming call: values buffered, not yet pulled
    yielded,     \* streaming call: values call.stream() has produced
    requests     \* Requests handed to the client handle

mainVars == <<pc, channel, probe>>
estVars  == <<outbound, attempt, outLog, profile, profileEnd, handled, stream>>
rxVars   == <<nRead, rxEnd, rxFirst>>
rpcVars  == <<driver, last, pending, calls, queue, yielded, requests>>
vars == <<pc, outbound, attempt, outLog, profile, profileEnd, handled, stream,
          channel, nRead, rxEnd, probe, rxFirst,
          driver, last, pending, calls, queue, yielded, requests>>

Last(s) == s[Len(s)]

\* The log keeps the MaxAttempts latest results.
Logged(log, r) ==
    IF Len(log) < MaxAttempts THEN Append(log, r) ELSE Append(Tail(log), r)

\* Each evaluation of the select! builds a new outbound future; two
\* numbers tell a future from the one before it.
NextAttempt(a) == IF a = 1 THEN 2 ELSE 1

Slots == {"unary", "streaming", "other"}
\* A packet as the client sees it; seq, its position in the incoming
\* sequence, stands for the payload.
Packet(f, n) == [seq |-> n, channel_id |-> f.channel_id, call_id |-> f.call_id]
NoPacket == [seq |-> 0, channel_id |-> 0, call_id |-> 0]
NoCall == [status |-> "idle", result |-> NoPacket]

Init ==
    /\ pc = "select"
    /\ outbound = "inflight"
    /\ attempt = 1
    /\ outLog = <<>>
    /\ profile = <<>>
    /\ profileEnd = FALSE
    /\ handled = <<>>
    /\ stream = NoStream
    /\ channel = InitChannel
    /\ nRead = 0
    /\ rxEnd = FALSE
    /\ probe = "none"
    /\ rxFirst = -1
    /\ driver = "none"
    /\ last = NoPacket
    /\ pending = {}
    /\ calls = [s \in Slots |-> NoCall]
    /\ queue = <<>>
    /\ yielded = <<>>
    /\ requests = {}

\* ------------------------------------------------------------ environment
\* BlueZ delivers a connection request to the registered profile.  The
\* profile handle lives only inside the block that calls
\* connect_device_to_profile, so requests arrive only while that runs.
OfferArrives(a) ==
    /\ pc \in {"select", "backoff"}
    /\ ~profileEnd
    /\ Len(profile) + Len(handled) < MaxOffers
    /\ profile' = Append(profile, a)
    /\ UNCHANGED <<pc, channel, probe, outbound, attempt, outLog, profileEnd,
                   handled, stream, rxVars, rpcVars>>

\* The profile handle's request stream ends.
ProfileCloses ==
    /\ pc \in {"select", "backoff"}
    /\ ~profileEnd
    /\ profileEnd' = TRUE
    /\ UNCHANGED <<pc, channel, probe, outbound, attempt, outLog, profile,
                   handled, stream, rxVars, rpcVars>>

\* ------------------------------------------- connect_device_to_profile
\* Variant of ConnectBranch: a successful attempt breaks out of the loop
\* with a stream instead of sleeping.
ConnectBranchBreakOnOk(ok) ==
    /\ pc = "select"
    /\ outbound = "inflight"
    /\ outLog' = Logged(outLog, IF ok THEN "ok" ELSE "err")
    /\ outbound' = "resolved"
    /\ attempt' = attempt
    /\ IF ok
         THEN /\ pc' = "probe"
              /\ stream' = DevAddr
              /\ profile' = <<>>
              /\ profileEnd' = TRUE
         ELSE /\ pc' = "backoff"
              /\ UNCHANGED <<stream, profile, profileEnd>>
    /\ UNCHANGED <<channel, probe, handled, rxVars, rpcVars>>

\* Variant of ConnectBranch: a failed attempt ends main with the error
\* instead of being retried.
ConnectBranchGiveUp(ok) ==
    /\ pc = "select"
    /\ outbound = "inflight"
    /\ outLog' = Logged(outLog, IF ok THEN "ok" ELSE "err")
    /\ outbound' = "resolved"
    /\ attempt' = attempt
    /\ pc' = IF ok THEN "backoff" ELSE "failed"
    /\ UNCHANGED <<channel, probe, profile, profileEnd, handled, stream,
                   rxVars, rpcVars>>

\* Variant of ConnectBranch: the sleep is taken after a failure only; after
\* a success the loop goes straight into the next race.
ConnectBranchSleepOnErr(ok) ==
    /\ pc = "select"
    /\ outbound = "inflight"
    /\ outLog' = Logged(outLog, IF ok THEN "ok" ELSE "err")
    /\ IF ok
         THEN /\ outbound' = "inflight"
              /\ attempt' = NextAttempt(attempt)
              /\ pc' = "select"
         ELSE /\ outbound' = "resolved"
              /\ attempt' = attempt
              /\ pc' = "backoff"
    /\ UNCHANGED <<channel, probe, profile, profileEnd, handled, stream,
                   rxVars, rpcVars>>

\* Variant of ConnectBranch: dropping the pending profile.next() loses the
\* request it was about to yield.
ConnectBranchLosesRequest(ok) ==
    /\ pc = "select"
    /\ outbound = "inflight"
    /\ outLog' = Logged(outLog, IF ok THEN "ok" ELSE "err")
    /\ outbound' = "resolved"
    /\ attempt' = attempt
    /\ pc' = "backoff"
    /\ profile' = IF profile = <<>> THEN profile ELSE Tail(profile)
    /\ UNCHANGED <<channel, probe, profileEnd, handled, stream,
                   rxVars, rpcVars>>

\* First select! branch: connect + connect_profile resolved with `ok`; the
\* handler prints a failure and then sleeps, whatever the result.
ConnectBranch(ok) ==
    /\ pc = "select"
    /\ outbound = "inflight"
    /\ outLog' = Logged(outLog, IF ok THEN "ok" ELSE "err")
    /\ outbound' = "resolved"
    /\ attempt' = attempt
    /\ pc' = "backoff"
    /\ UNCHANGED <<channel, probe, profile, profileEnd, handled, stream,
                   rxVars, rpcVars>>

\* The sleep of the first handler is over: next iteration of the loop, a
\* fresh outbound future is raced against profile.next().
SleepElapsed ==
    /\ pc = "backoff"
    /\ pc' = "select"
    /\ outbound' = "inflight"
    /\ attempt' = NextAttempt(attempt)
    /\ UNCHANGED <<channel, probe, outLog, profile, profileEnd,
                   handled, stream, rxVars, rpcVars>>

\* Variant of AcceptRequest: the request is accepted without comparing
\* req.device() with dev.address().
AcceptAnyRequest ==
    /\ pc = "select"
    /\ profile # <<>>
    /\ handled' = Append(handled, <<Head(profile), "accept">>)
    /\ stream' = Head(profile)
    /\ outbound' = "cancelled"
    /\ attempt' = 0
    /\ profile' = <<>>
    /\ profileEnd' = TRUE
    /\ pc' = "probe"
    /\ UNCHANGED <<channel, probe, outLog, rxVars, rpcVars>>

\* Variant of AcceptRequest: the select! is biased towards the outbound
\* branch, whose future is awaited before a request is looked at.
AcceptRequestAfterConnect ==
    /\ pc = "select"
    /\ profile # <<>>
    /\ Head(profile) = DevAddr
    /\ outLog' = Logged(outLog, "err")
    /\ handled' = Append(handled, <<Head(profile), "accept">>)
    /\ stream' = Head(profile)
    /\ outbound' = "resolved"
    /\ attempt' = attempt
    /\ profile' = <<>>
    /\ profileEnd' = TRUE
    /\ pc' = "probe"
    /\ UNCHANGED <<channel, probe, rxVars, rpcVars>>

\* Variant of AcceptRequest: the sleep is part of the raced outbound
\* future, so a request is also taken while the sleep runs.
AcceptRequestDuringSleep ==
    /\ pc \in {"select", "backoff"}
    /\ profile # <<>>
    /\ Head(profile) = DevAddr
    /\ handled' = Append(handled, <<Head(profile), "accept">>)
    /\ stream' = Head(profile)
    /\ outbound' = "cancelled"
    /\ attempt' = 0
    /\ profile' = <<>>
    /\ profileEnd' = TRUE
    /\ pc' = "probe"
    /\ UNCHANGED <<channel, probe, outLog, rxVars, rpcVars>>

\* Second select! branch, request from the expected device: accept, break.
\* The function returns into main's block, whose end drops the profile
\* handle together with whatever requests it still holds.
AcceptRequest ==
    /\ pc = "select"
    /\ profile # <<>>
    /\ Head(profile) = DevAddr
    /\ handled' = Append(handled, <<Head(profile), "accept">>)
    /\ stream' = Head(profile)
    /\ outbound' = "cancelled"
    /\ attempt' = 0
    /\ profile' = <<>>
    /\ profileEnd' = TRUE
    /\ pc' = "probe"
    /\ UNCHANGED <<channel, probe, outLog, rxVars, rpcVars>>

\* Variant of RejectRequest: after the reject the function gives up
\* instead of going round the loop.
RejectRequestAndStop ==
    /\ pc = "select"
    /\ profile # <<>>
    /\ Head(profile) # DevAddr
    /\ profile' = Tail(profile)
    /\ handled' = Append(handled, <<Head(profile), "reject">>)
    /\ outbound' = "cancelled"
    /\ attempt' = 0
    /\ pc' = "failed"
    /\ UNCHANGED <<channel, probe, outLog, profileEnd, stream,
                   rxVars, rpcVars>>

\* Variant of RejectRequest: the loop keeps the outbound future it had.
RejectRequestKeepAttempt ==
    /\ pc = "select"
    /\ profile # <<>>
    /\ Head(profile) # DevAddr
    /\ profile' = Tail(profile)
    /\ handled' = Append(handled, <<Head(profile), "reject">>)
    /\ UNCHANGED <<pc, outbound, attempt>>
    /\ UNCHANGED <<channel, probe, outLog, profileEnd, stream,
                   rxVars, rpcVars>>

\* Second select! branch, request from another device: reject, loop.
RejectRequest ==
    /\ pc = "select"
    /\ profile # <<>>
    /\ Head(profile) # DevAddr
    /\ profile' = Tail(profile)
    /\ handled' = Append(handled, <<Head(profile), "reject">>)
    /\ outbound' = "inflight"
    /\ attempt' = NextAttempt(attempt)
    /\ pc' = "select"
    /\ UNCHANGED <<channel, probe, outLog, profileEnd, stream,
                   rxVars, rpcVars>>

\* Second select! branch, profile.next() yields None: req.expect panics.
NoRequestPanic ==
    /\ pc = "select"
    /\ profile = <<>>
    /\ profileEnd
    /\ outbound' = "cancelled"
    /\ attempt' = 0
    /\ pc' = "panicked"
    /\ UNCHANGED <<channel, probe, outLog, profile, profileEnd,
                   handled, stream, rxVars, rpcVars>>

\* ------------------------------------------------- main, channel probe
\* Variant of ProbeOk: the packet's channel id is not stored.
ProbeOkKeepDefault(f) ==
    /\ pc = "probe"
    /\ ~rxEnd
    /\ nRead < MaxFrames
    /\ nRead' = nRead + 1
    /\ rxFirst' = f.channel_id
    /\ probe' = "frame"
    /\ pc' = "setup"
    /\ UNCHANGED <<estVars, channel, rxEnd, rpcVars>>

\* Variant of ProbeOk: the loop takes one more item before it breaks.
ProbeOkReadsTwo(f) ==
    /\ pc = "probe"
    /\ ~rxEnd
    /\ nRead + 1 < MaxFrames
    /\ nRead' = nRead + 2
    /\ rxFirst' = f.channel_id
    /\ channel' = f.channel_id
    /\ probe' = "frame"
    /\ pc' = "setup"
    /\ UNCHANGED <<estVars, rxEnd, rpcVars>>

\* stream.next() yields Some(Ok(packet)): adopt the channel id, break.
\* The packet itself is dropped.
ProbeOk(f) ==
    /\ pc = "probe"
    /\ ~rxEnd
    /\ nRead < MaxFrames
    /\ nRead' = nRead + 1
    /\ rxFirst' = f.channel_id
    /\ channel' = f.channel_id
    /\ probe' = "frame"
    /\ pc' = "setup"
    /\ UNCHANGED <<estVars, rxEnd, rpcVars>>

\* Variant of ProbeErr: the error is skipped and the loop reads on.
ProbeErrSkip ==
    /\ pc = "probe"
    /\ ~rxEnd
    /\ nRead < MaxFrames
    /\ nRead' = nRead + 1
    /\ probe' = "error"
    /\ pc' = "probe"
    /\ UNCHANGED <<estVars, channel, rxEnd, rxFirst, rpcVars>>

\* stream.next() yields Some(Err(e)): Err(e)? returns from main.
ProbeErr ==
    /\ pc = "probe"
    /\ ~rxEnd
    /\ nRead < MaxFrames
    /\ nRead' = nRead + 1
    /\ probe' = "error"
    /\ pc' = "failed"
    /\ UNCHANGED <<estVars, channel, rxEnd, rxFirst, rpcVars>>

\* stream.next() yields None: the while-let falls through.
ProbeEnd ==
    /\ pc = "probe"
    /\ ~rxEnd
    /\ rxEnd' = TRUE
    /\ probe' = "closed"
    /\ pc' = "setup"
    /\ UNCHANGED <<estVars, channel, nRead, rxFirst, rpcVars>>

\* -------------------------------------------------- main, client set-up
\* Client::new(stream), client.handle(), tokio::spawn(run_client(client)).
ClientSetup ==
    /\ pc = "setup"
    /\ driver' = "running"
    /\ pc' = "unary"
    /\ UNCHANGED <<estVars, channel, probe, rxVars,
                   last, pending, calls, queue, yielded, requests>>

\* ------------------------------------------------ pwrpc client (handle)
Key(ch, id) == <<ch, id>>
Entry(ch, id, slot) == [key |-> Key(ch, id), slot |-> slot]
Request(ch, id, method) == [channel_id |-> ch, call_id |-> id, method |-> method]

\* Variant of Lookup: calls are told apart by call id alone.
LookupByCallId(table, key) == {e \in table : e.key[2] = key[2]}

\* The pending call a packet with this key is routed to, if any.
Lookup(table, key) == {e \in table : e.key = key}

\* handle.unary / handle.server_streaming: register a PendingCall for
\* (channel_id, call_id) and send the Request.
Register(table, ch, id, slot) == table \cup {Entry(ch, id, slot)}

\* Variant of Deregister: the entry of a dropped call stays in the table.
DeregisterNothing(table, slot) == table

\* Dropping a call's future removes its PendingCall entry.
Deregister(table, slot) == {e \in table : e.slot # slot}

\* -------------------------------------------------------- main, the calls
\* handle.unary(req).await? with GetSoftwareInfo, call_id 42.
MainUnary ==
    /\ pc = "unary"
    /\ requests' = requests \cup {Request(channel, MainCallId, "GetSoftwareInfo")}
    /\ IF driver = "running"
         THEN /\ pending' = Register(pending, channel, MainCallId, "unary")
              /\ calls' = [calls EXCEPT !["unary"].status = "pending"]
              /\ pc' = "unary_wait"
         ELSE /\ calls' = [calls EXCEPT !["unary"].status = "closed"]
              /\ pc' = "failed"
              /\ UNCHANGED pending
    /\ UNCHANGED <<estVars, channel, probe, rxVars, driver, last, queue, yielded>>

\* Variant of MainUnaryResult: main goes on without awaiting the result.
MainUnaryResultNoAwait ==
    /\ pc = "unary_wait"
    /\ pc' = IF calls["unary"].status \in {"pending", "resolved"}
               THEN "subscribe" ELSE "failed"
    /\ UNCHANGED <<estVars, channel, probe, rxVars, rpcVars>>

\* .result().await? resolves once the unary call is terminal.
MainUnaryResult ==
    /\ pc = "unary_wait"
    /\ calls["unary"].status # "pending"
    /\ pc' = IF calls["unary"].status = "resolved" THEN "subscribe" ELSE "failed"
    /\ UNCHANGED <<estVars, channel, probe, rxVars, rpcVars>>

\* Variant of MainServerStreaming: the request takes the channel id of
\* the packet received last.
MainServerStreamingLastChannel ==
    /\ pc = "subscribe"
    /\ LET ch == IF last = NoPacket THEN channel ELSE last.channel_id
       IN /\ requests' = requests
                \cup {Request(ch, MainCallId, "SubscribeToSettingsChanges")}
          /\ IF driver = "running"
               THEN /\ pending' = Register(pending, ch, MainCallId, "streaming")
                    /\ calls' = [calls EXCEPT !["streaming"].status = "pending"]
                    /\ pc' = "listen"
               ELSE /\ calls' = [calls EXCEPT !["streaming"].status = "closed"]
                    /\ pc' = "failed"
                    /\ UNCHANGED pending
    /\ UNCHANGED <<estVars, channel, probe, rxVars, driver, last, queue, yielded>>

\* handle.server_streaming(req).await? with SubscribeToSettingsChanges,
\* call_id 42.
MainServerStreaming ==
    /\ pc = "subscribe"
    /\ requests' = requests
                     \cup {Request(channel, MainCallId, "SubscribeToSettingsChanges")}
    /\ IF driver = "running"
         THEN /\ pending' = Register(pending, channel, MainCallId, "streaming")
              /\ calls' = [calls EXCEPT !["streaming"].status = "pending"]
              /\ pc' = "listen"
         ELSE /\ calls' = [calls EXCEPT !["streaming"].status = "closed"]
              /\ pc' = "failed"
              /\ UNCHANGED pending
    /\ UNCHANGED <<estVars, channel, probe, rxVars, driver, last, queue, yielded>>

\* Variant of MainStreamNext: the terminal status ends the loop although
\* values are still buffered.
MainStreamNextEndEarly ==
    /\ pc = "listen"
    /\ IF calls["streaming"].status # "pending"
         THEN /\ pc' = IF calls["streaming"].status = "ended" THEN "done" ELSE "failed"
              /\ UNCHANGED <<queue, yielded>>
         ELSE /\ queue # <<>>
              /\ yielded' = Append(yielded, Head(queue))
              /\ queue' = Tail(queue)
              /\ pc' = "listen"
    /\ UNCHANGED <<estVars, channel, probe, rxVars,
                   driver, last, pending, calls, requests>>

\* call.stream().next().await: a buffered value is printed; once the
\* buffer is empty the terminal status ends the loop (msg? on a failure).
MainStreamNext ==
    /\ pc = "listen"
    /\ IF queue # <<>>
         THEN /\ yielded' = Append(yielded, Head(queue))
              /\ queue' = Tail(queue)
              /\ pc' = "listen"
         ELSE /\ calls["streaming"].status # "pending"
              /\ pc' = IF calls["streaming"].status = "ended" THEN "done" ELSE "failed"
              /\ UNCHANGED <<queue, yielded>>
    /\ UNCHANGED <<estVars, channel, probe, rxVars,
                   driver, last, pending, calls, requests>>

\* ------------------------------------------- a second caller on the handle
\* Another task issues a unary call on the session's channel.
OtherUnary ==
    /\ driver = "running"
    /\ pc \in {"unary", "unary_wait", "subscribe", "listen"}
    /\ calls["other"].status = "idle"
    /\ requests' = requests \cup {Request(channel, OtherCallId, "GetSoftwareInfo")}
    /\ pending' = Register(pending, channel, OtherCallId, "other")
    /\ calls' = [calls EXCEPT !["other"].status = "pending"]
    /\ UNCHANGED <<pc, estVars, channel, probe, rxVars,
                   driver, last, queue, yielded>>

\* The other task drops its future before the call completed.
OtherCancel ==
    /\ calls["other"].status = "pending"
    /\ pending' = Deregister(pending, "other")
    /\ calls' = [calls EXCEPT !["other"].status = "cancelled"]
    /\ UNCHANGED <<pc, estVars, channel, probe, rxVars,
                   driver, last, queue, yielded, requests>>

\* ----------------------------------------------- run_client: client.run()
\* What a pending call becomes when packet p of the given kind is routed
\* to it: a streaming call stays open on a value and ends on a terminal
\* status; a unary call resolves with the packet, or fails on an error
\* status.
Deliver(call, slot, p, kind) ==
    IF slot = "streaming"
      THEN [call EXCEPT !.status = CASE kind = "data"  -> "pending"
                                     [] kind = "end"   -> "ended"
                                     [] OTHER          -> "error"]
      ELSE [status |-> IF kind = "error" THEN "error" ELSE "resolved",
            result |-> IF kind = "error" THEN NoPacket ELSE p]

\* The driver reads a packet and routes it by (channel_id, call_id); a
\* packet that matches no pending call is dropped.
DriverPacket(f) ==
    /\ driver = "running"
    /\ ~rxEnd
    /\ nRead < MaxFrames
    /\ nRead' = nRead + 1
    /\ last' = Packet(f, nRead + 1)
    /\ LET p   == Packet(f, nRead + 1)
           hit == Lookup(pending, Key(p.channel_id, p.call_id))
       IN IF hit = {}
            THEN UNCHANGED <<pending, calls, queue>>
            ELSE LET e == CHOOSE x \in hit : TRUE
                     c == Deliver(calls[e.slot], e.slot, p, f.kind)
                 IN /\ calls' = [calls EXCEPT ![e.slot] = c]
                    /\ pending' = IF c.status = "pending"
                                    THEN pending ELSE pending \ {e}
                    /\ queue' = IF e.slot = "streaming" /\ f.kind = "data"
                                  THEN Append(queue, p) ELSE queue
    /\ UNCHANGED <<pc, estVars, channel, probe, rxEnd, rxFirst,
                   driver, yielded, requests>>

\* Variant of FailPending: the pending calls are left as they are.
FailPendingNone(cs, table) == cs

\* Every call still pending fails with "connection closed".
FailPending(cs, table) ==
    [s \in Slots |-> IF \E e \in table : e.slot = s
                       THEN [cs[s] EXCEPT !.status = "closed"] ELSE cs[s]]

\* The incoming sequence yields a decode error: run() returns Err, which
\* run_client logs.
DriverError ==
    /\ driver = "running"
    /\ ~rxEnd
    /\ nRead < MaxFrames
    /\ nRead' = nRead + 1
    /\ driver' = "error"
    /\ calls' = FailPending(calls, pending)
    /\ pending' = {}
    /\ UNCHANGED <<pc, estVars, channel, probe, rxEnd, rxFirst,
                   last, queue, yielded, requests>>

\* The incoming sequence ends: run() returns.
DriverEnd ==
    /\ driver = "running"
    /\ rxEnd' = TRUE
    /\ driver' = "ended"
    /\ calls' = FailPending(calls, pending)
    /\ pending' = {}
    /\ UNCHANGED <<pc, estVars, channel, probe, nRead, rxFirst,
                   last, queue, yielded, requests>>

Next ==
    \/ \E a \in Addresses : OfferArrives(a)
    \/ ProfileCloses
    \/ \E ok \in BOOLEAN : ConnectBranch(ok)
    \/ SleepElapsed
    \/ AcceptRequest
    \/ RejectRequest
    \/ NoRequestPanic
    \/ \E f \in Frames : ProbeOk(f)
    \/ ProbeErr
    \/ ProbeEnd
    \/ ClientSetup
    \/ MainUnary
    \/ MainUnaryResult
    \/ MainServerStreaming
    \/ MainStreamNext
    \/ OtherUnary
    \/ OtherCancel
    \/ \E f \in Frames : DriverPacket(f)
    \/ DriverError
    \/ DriverEnd

Spec == Init /\ [][Next]_vars

\* What the scheduler and the timer guarantee: the sleep ends, an outbound
\* attempt resolves (BlueZ answers or times out), select! picks its first
\* branch at random so a ready profile.next() is not passed over for ever,
\* and main's own steps run when they can.  Nothing is assumed of the peer.
Fairness ==
    /\ WF_vars(SleepElapsed)
    /\ WF_vars(\E ok \in BOOLEAN : ConnectBranch(ok))
    /\ SF_vars(AcceptRequest \/ RejectRequest \/ NoRequestPanic)
    /\ WF_vars(ClientSetup \/ MainUnary \/ MainUnaryResult
                 \/ MainServerStreaming \/ MainStreamNext)

FairSpec == Init /\ [][Next]_vars /\ Fairness

\* =================================================================== claims
Establishing == {"select", "backoff"}
Returned == {"probe", "setup", "unary", "unary_wait", "subscribe", "listen",
             "done", "failed"}
Range(s) == {s[i] : i \in DOMAIN s}

\* A step in which an outbound attempt resolves successfully / with an error.
ConnectStep    == outbound = "inflight" /\ outbound' = "resolved"
ConnectOkStep  == ConnectStep /\ Last(outLog') = "ok"
ConnectErrStep == ConnectStep /\ Last(outLog') = "err"
\* A step in which the inbound branch takes the request at the head.
RequestStep == pc = "select" /\ profile # <<>> /\ Len(handled') = Len(handled) + 1

\* C1 as stated: whenever an outbound connect attempt completes
\* successfully, the loop terminates at that point and returns the
\* Transport, without a backoff wait.
C1_ReturnsOnConnectOk ==
    [][ConnectOkStep => pc' \in Returned /\ stream' # NoStream]_vars

\* C1 amended: a successful outbound attempt does not end the loop; no
\* stream is returned, the handler starts the backoff sleep, and when the
\* sleep is over the loop races a fresh outbound attempt against the next
\* request.
C1_ConnectOkSleepsAndLoops ==
    [][ /\ ConnectOkStep =>
             pc' = "backoff" /\ stream' = NoStream
        /\ (pc = "backoff" /\ pc' # "backoff") =>
             pc' = "select" /\ outbound' = "inflight" /\ stream' = NoStream
      ]_vars

C1_Witness ==
    pc = "select" /\ outLog # <<>> /\ Last(outLog) = "ok" /\ stream = NoStream

\* C2 as stated: once a run of failed outbound attempts has been followed
\* by a successful one, the establisher eventually terminates with a
\* Transport bound to the target device.
C2_ConnectOkLeadsToReturn ==
    ("ok" \in Range(outLog)) ~> (pc \in Returned /\ stream = DevAddr)

\* C2 amended: the establisher has returned exactly when a request was
\* accepted, never because an outbound attempt succeeded; and whenever it
\* has returned, the stream is bound to the target device and comes from
\* the last request handled, one of the target device that was accepted.
C2_ReturnedStreamIsTargets ==
    /\ (pc \in Returned) <=> (stream # NoStream)
    /\ pc \in Returned =>
         /\ stream = DevAddr
         /\ handled # <<>>
         /\ Last(handled) = <<DevAddr, "accept">>

C2_Witness ==
    /\ pc = "probe"
    /\ stream = DevAddr
    /\ Len(outLog) >= 2
    /\ Last(outLog) = "ok"
    /\ \A i \in 1..(Len(outLog) - 1) : outLog[i] = "err"

\* C3: no request of a device other than the target has been accepted;
\* each such request is rejected, the loop does not terminate on it, and
\* it goes on racing a fresh outbound attempt against the next request.
C3_ForeignRequestRejected ==
    /\ [](\A i \in DOMAIN handled :
            handled[i][1] # DevAddr => handled[i][2] = "reject")
    /\ [][(RequestStep /\ Head(profile) # DevAddr) =>
            /\ Last(handled') = <<Head(profile), "reject">>
            /\ profile' = Tail(profile)
            /\ pc' = "select"
            /\ outbound' = "inflight"
            /\ stream' = NoStream
         ]_vars

C3_Witness ==
    /\ pc = "select"
    /\ handled # <<>>
    /\ Last(handled) = <<"other", "reject">>

\* C4: a request of the target device that the inbound branch takes is
\* accepted and ends the loop while the outbound attempt is still in
\* flight: the attempt is dropped, not awaited.  And a request of the
\* target device waiting in the profile handle is accepted in the end.
C4_TargetRequestAccepted ==
    /\ [][(RequestStep /\ Head(profile) = DevAddr) =>
            /\ outbound = "inflight"
            /\ Last(handled') = <<DevAddr, "accept">>
            /\ pc' = "probe"
            /\ stream' = DevAddr
            /\ outbound' = "cancelled"
            /\ outLog' = outLog
         ]_vars
    /\ (pc \in Establishing /\ DevAddr \in Range(profile)) ~> (stream = DevAddr)

C4_Witness ==
    /\ pc = "probe"
    /\ stream = DevAddr
    /\ outbound = "cancelled"
    /\ outLog = <<"err">>

C6_NoSignalFailsProbe ==
    probe = "closed" =>
        /\ pc \in {"setup", "failed"}
        /\ driver = "none"
        /\ requests = {}

\* C7: when the first frame of the stream decodes and carries channel id
\* K, the session adopts K (main's channel, and the channel id of every
\* Request issued), and that frame, item 1 of the incoming sequence,
\* reaches no call: it is no call's result and no value of the streaming
\* call.
C7_FirstFrameGivesChannelOnly ==
    probe = "frame" =>
        /\ channel = rxFirst
        /\ \A r \in requests : r.channel_id = rxFirst
        /\ \A s \in Slots : calls[s].result.seq # 1
        /\ \A i \in DOMAIN queue : queue[i].seq # 1
        /\ \A i \in DOMAIN yielded : yielded[i].seq # 1
        /\ last.seq # 1

C7_Witness ==
    /\ probe = "frame"
    /\ rxFirst = MaxChannel
    /\ rxFirst # InitChannel
    /\ calls["unary"].status = "resolved"
    /\ yielded # <<>>

\* C8: when the first item the probe loop reads is a decode error, main
\* returns the error at once: that item is the only one read, channel
\* keeps its initial value, no client is constructed, no driver is spawned
\* and no call is issued.
C8_ProbeErrorAborts ==
    probe = "error" =>
        /\ pc = "failed"
        /\ nRead = 1
        /\ channel = InitChannel
        /\ rxFirst = -1
        /\ driver = "none"
        /\ pending = {}
        /\ requests = {}
        /\ \A s \in Slots : calls[s] = NoCall

C8_Witness == probe = "error" /\ pc = "failed" /\ stream = DevAddr

Terminal == {"resolved", "error", "closed", "cancelled"}

\* C9: no two pending calls carry the same call id, and the streaming call
\* with call id 42 has been issued only once the unary call with call id
\* 42 is terminal.
C9_CallIdNotShared ==
    /\ \A d, e \in pending : d.key[2] = e.key[2] => d = e
    /\ calls["streaming"].status # "idle" => calls["unary"].status \in Terminal
    /\ pc \in {"subscribe", "listen", "done"} => calls["unary"].status = "resolved"

C9_Witness ==
    /\ calls["streaming"].status = "pending"
    /\ calls["unary"].status = "resolved"
    /\ \E e \in pending : e.key = Key(channel, MainCallId) /\ e.slot = "streaming"

CallIdOf(s) == IF s = "other" THEN OtherCallId ELSE MainCallId

\* C10: a packet the driver reads changes only the pending call whose
\* (channel id, call id) equals the packet's, and a packet that matches no
\* pending call changes no call, queue or table entry; so a resolved call
\* holds a packet of its own channel and call id, and no packet is the
\* result of two calls, whatever the order of the responses.
C10_Correlation ==
    /\ [](\A s \in Slots : calls[s].status = "resolved" =>
             /\ calls[s].result.seq > 1
             /\ calls[s].result.channel_id = channel
             /\ calls[s].result.call_id = CallIdOf(s))
    /\ [](\A s, t \in Slots :
             (s # t /\ calls[s].status = "resolved" /\ calls[t].status = "resolved")
               => calls[s].result.seq # calls[t].result.seq)
    /\ [](\A i \in DOMAIN queue :
             queue[i].channel_id = channel /\ queue[i].call_id = MainCallId)
    /\ [][last' # last =>
            LET hit == {e \in pending : e.key = Key(last'.channel_id, last'.call_id)}
            IN /\ \A s \in Slots :
                    calls'[s] # calls[s] => \E e \in hit : e.slot = s
               /\ queue' # queue => \E e \in hit : e.slot = "streaming"
               /\ pending' # pending => pending' = pending \ hit
               /\ hit = {} => calls' = calls /\ pending' = pending /\ queue' = queue
         ]_vars

\* Two unary calls were outstanding together, the later-numbered response
\* went to main's call, and a packet with an unused call id came last.
C10_Witness ==
    /\ calls["unary"].status = "resolved"
    /\ calls["other"].status = "resolved"
    /\ calls["other"].result.seq < calls["unary"].result.seq
    /\ last.call_id = StrayCallId
    /\ last.channel_id = channel

Stopped == driver \in {"ended", "error"}
IsPending(table, s) == \E e \in table : e.slot = s

\* C11: when the incoming sequence ends or yields a decode error, run()
\* stops; in that step every pending call becomes a connection-closed
\* failure and no other call changes, so that no call is pending once the
\* driver has stopped; and the stopped driver reads nothing more.
C11_DriverShutdown ==
    /\ [](Stopped => /\ pending = {}
                     /\ \A s \in Slots : calls[s].status # "pending")
    /\ [][(driver = "running" /\ driver' # "running") =>
            /\ Stopped'
            /\ \A s \in Slots :
                 IF IsPending(pending, s)
                   THEN calls'[s].status = "closed"
                   ELSE calls'[s] = calls[s]
         ]_vars
    /\ [][Stopped => driver' = driver /\ nRead' = nRead /\ last' = last]_vars

\* Two calls were pending when the driver stopped on a decode error.
C11_Witness ==
    /\ driver = "error"
    /\ pc = "listen"
    /\ calls["streaming"].status = "closed"
    /\ calls["other"].status = "closed"

\* C12: dropping a pending call's future removes its entry from the table
\* and touches no other call; a packet with that call id read afterwards
\* changes no call, queue or table entry and leaves the driver running.
C12_Cancellation ==
    /\ [](calls["other"].status = "cancelled" =>
             /\ ~IsPending(pending, "other")
             /\ calls["other"].result = NoPacket)
    /\ [][(calls["other"].status = "pending" /\ calls'["other"].status = "cancelled") =>
            /\ pending' = {e \in pending : e.slot # "other"}
            /\ \A s \in Slots \ {"other"} : calls'[s] = calls[s]
            /\ queue' = queue
            /\ driver' = driver
         ]_vars
    /\ [][(calls["other"].status = "cancelled" /\ last' # last
             /\ last'.call_id = OtherCallId) =>
            /\ calls' = calls
            /\ pending' = pending
            /\ queue' = queue
            /\ driver' = "running"
         ]_vars
    /\ [][calls["other"].status = "cancelled" => calls'["other"] = calls["other"]]_vars

C12_Witness ==
    /\ calls["other"].status = "cancelled"
    /\ last.call_id = OtherCallId
    /\ last.channel_id = channel
    /\ driver = "running"
    /\ calls["unary"].status = "pending"

Increasing(s) == \A i, j \in DOMAIN s : i < j => s[i].seq < s[j].seq

\* C13: the values of the streaming call reach the consumer in arrival
\* order, each taken from the head of the buffer; the loop over
\* call.stream() ends only when the terminal status has arrived and every
\* buffered value has been yielded; and once the terminal status has
\* arrived no value is added.
C13_StreamingTermination ==
    /\ [](Increasing(yielded \o queue))
    /\ [](pc = "done" => calls["streaming"].status = "ended" /\ queue = <<>>)
    /\ [][yielded' # yielded =>
            /\ queue # <<>>
            /\ yielded' = Append(yielded, Head(queue))
            /\ queue' = Tail(queue)
         ]_vars
    /\ [][(pc = "listen" /\ pc' # "listen") =>
            /\ queue = <<>>
            /\ calls["streaming"].status \in {"ended", "error", "closed"}
            /\ yielded' = yielded
         ]_vars
    /\ [][calls["streaming"].status \in {"ended", "error", "closed"} =>
            /\ calls'["streaming"] = calls["streaming"]
            /\ queue' = queue \/ (queue # <<>> /\ queue' = Tail(queue))
         ]_vars

C13_Witness ==
    /\ pc = "done"
    /\ calls["streaming"].status = "ended"
    /\ yielded # <<>>
    /\ last.seq > Last(yielded).seq

\* C14 as stated: the backoff wait is entered exactly when an outbound
\* attempt has failed, and not after an attempt that succeeded.
C14_BackoffOnlyAfterFailure ==
    [][ConnectStep => (pc' = "backoff" <=> Last(outLog') = "err")]_vars

\* C14 amended: the backoff wait is entered exactly when an outbound
\* attempt has resolved, with a failure or with a success alike, and the
\* next attempt starts only when that wait is over.
C14_BackoffAfterEveryAttempt ==
    /\ [](outbound = "resolved" <=> pc = "backoff")
    /\ [][(ConnectStep \/ outLog' # outLog) =>
            pc = "select" /\ pc' = "backoff" /\ attempt' = attempt]_vars
    /\ [][(pc # "backoff" /\ pc' = "backoff") => ConnectStep]_vars
    /\ [][(outbound = "resolved" /\ outbound' # "resolved") =>
            /\ pc = "backoff" /\ pc' = "select"
            /\ outbound' = "inflight" /\ attempt' = NextAttempt(attempt)
         ]_vars

C14_Witness == pc = "backoff" /\ outLog = <<"err", "ok">>

\* C15 as stated: while the backoff wait runs, a request that has arrived
\* can be acted on at once.
C15_RequestTakenDuringBackoff ==
    (pc = "backoff" /\ profile # <<>>) => ENABLED (AcceptRequest \/ RejectRequest)

\* C15 amended: the backoff wait is not raced; while it runs no request is
\* accepted or rejected, a request that arrives stays queued, and requests
\* are taken only in the race that starts once the wait is over.
C15_RequestWaitsForBackoff ==
    /\ [][pc = "backoff" =>
            /\ pc' \in {"backoff", "select"}
            /\ handled' = handled
            /\ stream' = NoStream
            /\ \/ profile' = profile
               \/ \E a \in Addresses : profile' = Append(profile, a)
         ]_vars
    /\ [][handled' # handled => pc = "select" /\ outbound = "inflight"]_vars

C15_Witness == pc = "backoff" /\ profile # <<>> /\ Head(profile) = DevAddr

\* C16: an outbound attempt is in flight exactly while the loop is racing,
\* one at a time; taking a request drops the attempt in flight, whose
\* result is never seen, and after a rejection the attempt in flight is a
\* new one; an attempt that resolves first leaves the requests untouched.
C16_LoserOfRaceCancelled ==
    /\ [](outbound = "inflight" <=> pc = "select")
    /\ [](attempt = 0 <=> pc \notin Establishing)
    /\ [][RequestStep =>
            /\ outbound = "inflight"
            /\ outLog' = outLog
            /\ IF Head(profile) = DevAddr
                 THEN outbound' = "cancelled" /\ attempt' = 0
                 ELSE outbound' = "inflight" /\ attempt' \notin {0, attempt}
         ]_vars
    /\ [][ConnectStep => handled' = handled /\ profile' = profile]_vars

C16_Witness ==
    /\ pc = "select"
    /\ handled = << <<"other", "reject">> >>
    /\ outLog = <<>>
    /\ attempt = 2

\* C17: each request the inbound branch takes is the one at the head of
\* the profile handle and gets exactly one verdict, accept or reject; while
\* the loop runs no queued request disappears otherwise: when the outbound
\* branch wins or the sleep runs, the requests stay queued in order.
C17_RequestConsumedOnce ==
    /\ [](\A i \in DOMAIN handled : handled[i][2] \in {"accept", "reject"})
    /\ [][handled' # handled =>
            /\ profile # <<>>
            /\ \E v \in {"accept", "reject"} :
                 handled' = Append(handled, <<Head(profile), v>>)
         ]_vars
    /\ [][(pc \in Establishing /\ pc' \in Establishing) =>
            \/ /\ handled' = handled
               /\ \/ profile' = profile
                  \/ \E a \in Addresses : profile' = Append(profile, a)
            \/ /\ Len(handled') = Len(handled) + 1
               /\ profile # <<>>
               /\ profile' = Tail(profile)
         ]_vars

C17_Witness ==
    /\ pc = "probe"
    /\ Len(handled) = 2
    /\ handled[1][2] = "reject"
    /\ handled[2][2] = "accept"
    /\ outLog # <<>>

MainRequests == {r \in requests : r.call_id = MainCallId}

\* C18: main's channel is assigned at most once, by the probe loop and
\* before any Request exists; every Request carries that channel id,
\* whatever channel ids the packets read later carry.
C18_ChannelFixed ==
    /\ [][channel' # channel =>
            pc = "probe" /\ probe = "none" /\ requests = {} /\ driver = "none"]_vars
    /\ [](\A r \in requests : r.channel_id = channel)
    /\ [][\A r \in requests : r \in requests']_vars

C18_Witness ==
    /\ probe = "frame"
    /\ Cardinality(MainRequests) = 2
    /\ last.seq > 1
    /\ last.channel_id # channel

\* C19: a successful probe has read exactly one item when the driver is
\* spawned; the items of the incoming sequence are read one at a time, the
\* first by the probe loop and every later one by the running driver, in
\* the order of the sequence.
C19_ProbeReadsOneFrame ==
    /\ []((probe = "frame" /\ driver = "none") => nRead = 1)
    /\ [](last.seq <= nRead)
    /\ [][nRead' # nRead =>
            /\ nRead' = nRead + 1
            /\ IF nRead = 0
                 THEN pc = "probe" /\ driver = "none"
                 ELSE pc # "probe" /\ driver = "running" /\ probe = "frame"
         ]_vars
    /\ [][last' # last =>
            driver = "running" /\ nRead' = nRead + 1 /\ last'.seq = nRead']_vars

C19_Witness ==
    /\ probe = "frame"
    /\ nRead = 3
    /\ last.seq = 3
    /\ calls["unary"].result.seq = 2

\* C20: the only step by which connect_device_to_profile returns is the
\* accept of the request at the head of the profile handle, whose device
\* is the target device; the stream is that request's.  A step in which
\* an outbound attempt resolves, with either result, stays in the loop.
C20_ReturnsOnlyByAccept ==
    /\ [][(pc \in Establishing /\ pc' \in Returned) =>
            /\ pc = "select"
            /\ profile # <<>>
            /\ Head(profile) = DevAddr
            /\ stream' = Head(profile)
            /\ handled' = Append(handled, <<DevAddr, "accept">>)
            /\ outLog' = outLog
         ]_vars
    /\ [][ConnectStep => pc' \in Establishing /\ stream' = stream]_vars
    /\ [][stream' # stream => stream = NoStream /\ pc \in Establishing]_vars

C20_Witness ==
    /\ pc = "probe"
    /\ outLog = <<>>
    /\ handled = << <<DevAddr, "accept">> >>
    /\ stream = DevAddr

====
